---- MODULE Spec2Model ----
(***************************************************************************)
(* ComponentAnimalBleeding (componentanimalbleeding.c): wound infliction   *)
(* and the recurring bleed tick of an animal.                              *)
(*                                                                         *)
(* Floats that take part in comparisons and products (bleedThreshold, the  *)
(* random draw, wound_intensity) are fixed-point numbers with denominator  *)
(* Scale; health, blood and damage magnitudes are whole numbers.           *)
(* The entity, the damage report, the configuration, the random source and *)
(* the Timer are collaborators whose code is outside the component; they   *)
(* are modelled from their described contracts.                            *)
(***************************************************************************)
EXTENDS Integers, Sequences, FiniteSets, TLC

\* ------------------------------------------------------------------ bounds
\* how many InflictWoundDamage / CreateWound calls one behaviour contains
MaxCalls == 2

\* ---------------------------------------------------------------- constants
\* denominator of the fixed-point representation of float
Scale == 4
BASE_BLEED_RATE == 250
PASS_OUT_AMOUT == 500

LethalAmmo == "MeleeWolf"
EntityType == "Animal_CanisLupus_Grey"

\* ------------------------------------------------------------------ inputs
Zones == {"Zone_Head", "Zone_Legs"}
ZoneNames == Zones \cup {""}
HealthTypes == {"Health", "Blood"}
Ammos == {"MeleeWolf", "Bullet_None", "Bullet_Half", "Bullet_Full"}
DamageVals == {0, 40, 100}
BloodDamage == 10
InitBlood == {600, 1000}
InitHealth == 100
\* uniform draw in [0,1), in units of 1/Scale
Draws == 0 .. (Scale - 1)

\* a damage report answers (zone, health type) with a magnitude; the reports
\* tried give the two zones different Health magnitudes
HealthDamages ==
  { h \in [Zones -> DamageVals] :
      \/ h["Zone_Head"] = 0 /\ h["Zone_Legs"] = 40
      \/ h["Zone_Head"] = 100 /\ h["Zone_Legs"] = 0 }

DamageReports ==
  { [k \in Zones \X HealthTypes |->
        IF k[2] = "Health" THEN h[k[1]] ELSE BloodDamage] :
      h \in HealthDamages }

\* configuration: path |-> float (bleedThreshold in units of 1/Scale)
CanBleedPath(type, zone_name) ==
  <<"CfgVehicles", type, "DamageSystem", "DamageZones", zone_name, "canBleed">>
BleedThresholdPath(ammo) ==
  <<"CfgAmmo", ammo, "DamageApplied", "bleedThreshold">>

Config ==
  (CanBleedPath(EntityType, "Zone_Head") :> 1) @@
  (CanBleedPath(EntityType, "Zone_Legs") :> 0) @@
  (BleedThresholdPath("MeleeWolf") :> 2) @@
  (BleedThresholdPath("Bullet_None") :> 0) @@
  (BleedThresholdPath("Bullet_Half") :> 2) @@
  (BleedThresholdPath("Bullet_Full") :> 4)

ConfigGetFloat(path) == IF path \in DOMAIN Config THEN Config[path] ELSE 0

\* ------------------------------------------------------------------- state
VARIABLES
  entity,        \* m_ThisEntityAI: <<zone, health type>> |-> level
  timers,        \* every Timer allocated so far: [running, wound_intensity]
  m_BleedTimer,  \* index into timers, 0 = NULL
  calls,         \* calls the last handler made on its collaborators, in order
  last,          \* the last handler invocation and its arguments
  pre,           \* entity / timers / m_BleedTimer when that invocation began
  bleeds,        \* per timer: has it ticked, entity levels when it started
  nCalls         \* InflictWoundDamage / CreateWound invocations so far

vars == <<entity, timers, m_BleedTimer, calls, last, pre, bleeds, nCalls>>

HealthKeys == ZoneNames \X HealthTypes

\* the component and its entity as one value the handlers transform
Cur == [entity |-> entity, timers |-> timers, m_BleedTimer |-> m_BleedTimer,
        calls |-> <<>>]

Snapshot == [entity |-> entity, timers |-> timers, m_BleedTimer |-> m_BleedTimer]

\* --------------------------------------------------------- entity (EntityAI)
\* an empty health type addresses the "Health" resource
HType(type) == IF type = "" THEN "Health" ELSE type

GetHealth(st, zone, type) == st.entity[<<zone, HType(type)>>]

SetHealth(st, zone, type, value) ==
  [st EXCEPT !.entity[<<zone, HType(type)>>] = value,
             !.calls = Append(@, <<"SetHealth", zone, type, value>>)]

DecreaseHealth(st, zone, type, value) ==
  [st EXCEPT !.entity[<<zone, HType(type)>>] = @ - value,
             !.calls = Append(@, <<"DecreaseHealth", zone, type, value>>)]

IsAlive(st) == st.entity[<<"", "Health">>] > 0

\* ------------------------------------------------------ TotalDamageResult
GetDamage(damage_result, zone, type) == damage_result[<<zone, type>>]

LogGetDamage(st, zone, type) ==
  [st EXCEPT !.calls = Append(@, <<"GetDamage", zone, type>>)]

\* ------------------------------------------------------------------ Timer
\* new Timer(): a fresh, idle timer; its index is its identity
NewTimer(st) ==
  [st EXCEPT !.timers = Append(@, [running |-> FALSE, wound_intensity |-> 0])]

\* Run( 1, this, "Bleed", new Param1<float>( wound_intensity ), true )
TimerRun(st, t, wound_intensity) ==
  [st EXCEPT !.timers[t] = [running |-> TRUE, wound_intensity |-> wound_intensity],
             !.calls = Append(@, <<"Run", t, wound_intensity>>)]

TimerStop(st, t) ==
  [st EXCEPT !.timers[t].running = FALSE,
             !.calls = Append(@, <<"Stop", t>>)]

\* ------------------------------------------------ ComponentAnimalBleeding
\* variant: the intensity clamped to 1.0
GetWoundIntensity_Clamped(bleed_treshold) ==
  IF bleed_treshold * 2 > Scale THEN Scale ELSE bleed_treshold * 2

GetWoundIntensity(bleed_treshold) == bleed_treshold * 2

\* variant: the lethal-weapon kill placed after the empty-zone return
InflictWoundDamage_KillAfterZoneCheck(st, damage_result, zone_name, ammo) ==
  IF zone_name = ""
  THEN st
  ELSE LET s1 == IF ammo = LethalAmmo THEN SetHealth(st, "", "", 0) ELSE st
           wound_healt_damage == GetDamage(damage_result, zone_name, "Health")
           s2 == LogGetDamage(s1, zone_name, "Health")
           s3 == DecreaseHealth(s2, "", "Health", wound_healt_damage)
       IN DecreaseHealth(s3, zone_name, "Health", wound_healt_damage)

\* variant: the lethal-weapon branch returns after the kill
InflictWoundDamage_LethalReturns(st, damage_result, zone_name, ammo) ==
  IF ammo = LethalAmmo
  THEN SetHealth(st, "", "", 0)
  ELSE IF zone_name = ""
       THEN st
       ELSE LET wound_healt_damage == GetDamage(damage_result, zone_name, "Health")
                s2 == LogGetDamage(st, zone_name, "Health")
                s3 == DecreaseHealth(s2, "", "Health", wound_healt_damage)
            IN DecreaseHealth(s3, zone_name, "Health", wound_healt_damage)

\* variant: the lethal-weapon kill done last, after the damage is applied
InflictWoundDamage_KillLast(st, damage_result, zone_name, ammo) ==
  LET s4 == IF zone_name = ""
            THEN st
            ELSE LET wound_healt_damage == GetDamage(damage_result, zone_name, "Health")
                     s2 == LogGetDamage(st, zone_name, "Health")
                     s3 == DecreaseHealth(s2, "", "Health", wound_healt_damage)
                 IN DecreaseHealth(s3, zone_name, "Health", wound_healt_damage)
  IN IF ammo = LethalAmmo THEN SetHealth(s4, "", "", 0) ELSE s4

\* variant: the magnitude read from the report's "Blood" entry
InflictWoundDamage_ReadsBlood(st, damage_result, zone_name, ammo) ==
  LET s1 == IF ammo = LethalAmmo THEN SetHealth(st, "", "", 0) ELSE st
  IN IF zone_name = ""
     THEN s1
     ELSE LET wound_healt_damage == GetDamage(damage_result, zone_name, "Blood")
              s2 == LogGetDamage(s1, zone_name, "Blood")
              s3 == DecreaseHealth(s2, "", "Health", wound_healt_damage)
          IN DecreaseHealth(s3, zone_name, "Health", wound_healt_damage)

\* variant: the report's "Blood" magnitude applied to global Blood as well
InflictWoundDamage_AlsoBlood(st, damage_result, zone_name, ammo) ==
  LET s1 == IF ammo = LethalAmmo THEN SetHealth(st, "", "", 0) ELSE st
  IN IF zone_name = ""
     THEN s1
     ELSE LET wound_healt_damage == GetDamage(damage_result, zone_name, "Health")
              wound_blood_damage == GetDamage(damage_result, zone_name, "Blood")
              s2 == LogGetDamage(s1, zone_name, "Health")
              s3 == DecreaseHealth(s2, "", "Health", wound_healt_damage)
              s4 == DecreaseHealth(s3, "", "Blood", wound_blood_damage)
          IN DecreaseHealth(s4, zone_name, "Health", wound_healt_damage)

InflictWoundDamage(st, damage_result, zone_name, ammo) ==
  LET s1 == IF ammo = LethalAmmo THEN SetHealth(st, "", "", 0) ELSE st
  IN IF zone_name = ""
     THEN s1
     ELSE LET health_damage_inflicted == GetDamage(damage_result, zone_name, "Health")
              wound_healt_damage == health_damage_inflicted
              s2 == LogGetDamage(s1, zone_name, "Health")
              s3 == DecreaseHealth(s2, "", "Health", wound_healt_damage)
          IN IF zone_name # ""
             THEN DecreaseHealth(s3, zone_name, "Health", wound_healt_damage)
             ELSE s3

\* the two configuration reads and the random draw of CreateWound, as calls
LogRoll(st, zone_name, ammo) ==
  [st EXCEPT !.calls = @ \o
     << <<"ConfigGetFloat", CanBleedPath(EntityType, zone_name)>>,
        <<"ConfigGetFloat", BleedThresholdPath(ammo)>>,
        <<"RandomFloat01">> >>]

\* variant: the roll and the timer start done before the damage is applied
CreateWound_RollFirst(st, damage_result, zone_name, ammo, chance) ==
  LET can_bleed == ConfigGetFloat(CanBleedPath(EntityType, zone_name)) > 0
      bleed_threshold == ConfigGetFloat(BleedThresholdPath(ammo))
      s1 == LogRoll(st, zone_name, ammo)
      s4 == IF can_bleed /\ chance <= bleed_threshold
            THEN LET s2 == NewTimer(s1)
                     t == Len(s2.timers)
                     s3 == [s2 EXCEPT !.m_BleedTimer = t]
                     wound_intensity == GetWoundIntensity(bleed_threshold)
                 IN TimerRun(s3, t, wound_intensity)
            ELSE s1
  IN InflictWoundDamage(s4, damage_result, zone_name, ammo)

\* variant: the timer m_BleedTimer holds is stopped before it is replaced
CreateWound_StopsPrevious(st, damage_result, zone_name, ammo, chance) ==
  LET s0 == InflictWoundDamage(st, damage_result, zone_name, ammo)
      can_bleed == ConfigGetFloat(CanBleedPath(EntityType, zone_name)) > 0
      bleed_threshold == ConfigGetFloat(BleedThresholdPath(ammo))
      s1 == LogRoll(s0, zone_name, ammo)
  IN IF can_bleed /\ chance <= bleed_threshold
     THEN LET sp == IF s1.m_BleedTimer # 0
                    THEN TimerStop(s1, s1.m_BleedTimer) ELSE s1
              s2 == NewTimer(sp)
              t == Len(s2.timers)
              s3 == [s2 EXCEPT !.m_BleedTimer = t]
              wound_intensity == GetWoundIntensity(bleed_threshold)
          IN TimerRun(s3, t, wound_intensity)
     ELSE s1

\* variant: the roll compared with < instead of <=
CreateWound_StrictRoll(st, damage_result, zone_name, ammo, chance) ==
  LET s0 == InflictWoundDamage(st, damage_result, zone_name, ammo)
      can_bleed == ConfigGetFloat(CanBleedPath(EntityType, zone_name)) > 0
      bleed_threshold == ConfigGetFloat(BleedThresholdPath(ammo))
      s1 == LogRoll(s0, zone_name, ammo)
  IN IF can_bleed /\ chance < bleed_threshold
     THEN LET s2 == NewTimer(s1)
              t == Len(s2.timers)
              s3 == [s2 EXCEPT !.m_BleedTimer = t]
              wound_intensity == GetWoundIntensity(bleed_threshold)
          IN TimerRun(s3, t, wound_intensity)
     ELSE s1

CreateWound(st, damage_result, zone_name, ammo, chance) ==
  LET s0 == InflictWoundDamage(st, damage_result, zone_name, ammo)
      can_bleed == ConfigGetFloat(CanBleedPath(EntityType, zone_name)) > 0
      bleed_threshold == ConfigGetFloat(BleedThresholdPath(ammo))
      s1 == LogRoll(s0, zone_name, ammo)
  IN IF can_bleed /\ chance <= bleed_threshold
     THEN LET s2 == NewTimer(s1)
              t == Len(s2.timers)
              s3 == [s2 EXCEPT !.m_BleedTimer = t]
              wound_intensity == GetWoundIntensity(bleed_threshold)
          IN TimerRun(s3, t, wound_intensity)
     ELSE s1

\* variant: the pass-out kill taken without applying the tick's decrease
Bleed_KillWithoutDrain(st, wound_intensity) ==
  IF IsAlive(st)
  THEN LET bleeding_intensity == (BASE_BLEED_RATE * wound_intensity) \div Scale
           global_blood_lvl == GetHealth(st, "", "Blood")
       IN IF global_blood_lvl < PASS_OUT_AMOUT
          THEN SetHealth(st, "", "", 0)
          ELSE DecreaseHealth(st, "", "Blood", bleeding_intensity)
  ELSE TimerStop(st, st.m_BleedTimer)

\* variant: the blood level read after the decrease
Bleed_ReadsAfterDecrease(st, wound_intensity) ==
  IF IsAlive(st)
  THEN LET bleeding_intensity == (BASE_BLEED_RATE * wound_intensity) \div Scale
           s1 == DecreaseHealth(st, "", "Blood", bleeding_intensity)
           global_blood_lvl == GetHealth(s1, "", "Blood")
       IN IF global_blood_lvl < PASS_OUT_AMOUT
          THEN SetHealth(s1, "", "", 0)
          ELSE s1
  ELSE TimerStop(st, st.m_BleedTimer)

\* variant: the kill taken only once the blood is used up
Bleed_KillWhenEmpty(st, wound_intensity) ==
  IF IsAlive(st)
  THEN LET bleeding_intensity == (BASE_BLEED_RATE * wound_intensity) \div Scale
           global_blood_lvl == GetHealth(st, "", "Blood")
           s1 == DecreaseHealth(st, "", "Blood", bleeding_intensity)
       IN IF global_blood_lvl <= 0
          THEN SetHealth(s1, "", "", 0)
          ELSE s1
  ELSE TimerStop(st, st.m_BleedTimer)

\* variant: the decrease limited to the blood that is left
Bleed_DrainCapped(st, wound_intensity) ==
  IF IsAlive(st)
  THEN LET bleeding_intensity == (BASE_BLEED_RATE * wound_intensity) \div Scale
           global_blood_lvl == GetHealth(st, "", "Blood")
           drained == IF bleeding_intensity > global_blood_lvl
                      THEN global_blood_lvl ELSE bleeding_intensity
           s1 == DecreaseHealth(st, "", "Blood", drained)
       IN IF global_blood_lvl < PASS_OUT_AMOUT
          THEN SetHealth(s1, "", "", 0)
          ELSE s1
  ELSE TimerStop(st, st.m_BleedTimer)

Bleed(st, wound_intensity) ==
  IF IsAlive(st)
  THEN LET bleeding_intensity == (BASE_BLEED_RATE * wound_intensity) \div Scale
           global_blood_lvl == GetHealth(st, "", "Blood")
           s1 == DecreaseHealth(st, "", "Blood", bleeding_intensity)
       IN IF global_blood_lvl < PASS_OUT_AMOUT
          THEN SetHealth(s1, "", "", 0)
          ELSE s1
  ELSE TimerStop(st, st.m_BleedTimer)

\* ------------------------------------------------------------ transitions
NoReport == [k \in Zones \X HealthTypes |-> 0]

Invocation(op, damage_result, zone_name, ammo, chance, timer, wound_intensity) ==
  [op |-> op, damage_result |-> damage_result, zone_name |-> zone_name,
   ammo |-> ammo, chance |-> chance, timer |-> timer,
   wound_intensity |-> wound_intensity]

Commit(s) ==
  /\ entity' = s.entity
  /\ timers' = s.timers
  /\ m_BleedTimer' = s.m_BleedTimer
  /\ calls' = s.calls
  /\ pre' = Snapshot

\* a bleed record for every timer the handler allocated
StartedBleeds(s) ==
  bleeds \o [i \in 1 .. (Len(s.timers) - Len(timers)) |->
               [ticked |-> FALSE, start |-> s.entity]]

Init ==
  /\ \E b \in InitBlood :
       entity = [k \in HealthKeys |->
                   IF k[2] = "Blood" THEN b ELSE InitHealth]
  /\ timers = <<>>
  /\ m_BleedTimer = 0
  /\ calls = <<>>
  /\ last = Invocation("Init", NoReport, "", "", 0, 0, 0)
  /\ pre = Snapshot
  /\ bleeds = <<>>
  /\ nCalls = 0

DoInflictWoundDamage ==
  \E damage_result \in DamageReports, zone_name \in ZoneNames, ammo \in Ammos :
    /\ nCalls < MaxCalls
    /\ Commit(InflictWoundDamage(Cur, damage_result, zone_name, ammo))
    /\ last' = Invocation("InflictWoundDamage", damage_result, zone_name, ammo, 0, 0, 0)
    /\ UNCHANGED bleeds
    /\ nCalls' = nCalls + 1

DoCreateWound ==
  \E damage_result \in DamageReports, zone_name \in ZoneNames, ammo \in Ammos,
     chance \in Draws :
    /\ nCalls < MaxCalls
    /\ Commit(CreateWound(Cur, damage_result, zone_name, ammo, chance))
    /\ last' = Invocation("CreateWound", damage_result, zone_name, ammo, chance, 0, 0)
    /\ bleeds' = StartedBleeds(CreateWound(Cur, damage_result, zone_name, ammo, chance))
    /\ nCalls' = nCalls + 1

\* the scheduler fires a running timer: it calls Bleed with the bound parameter
Tick(t) ==
  /\ t \in 1 .. Len(timers)
  /\ timers[t].running
  /\ Commit(Bleed(Cur, timers[t].wound_intensity))
  /\ last' = Invocation("Bleed", NoReport, "", "", 0, t, timers[t].wound_intensity)
  /\ bleeds' = [bleeds EXCEPT ![t].ticked = TRUE]
  /\ UNCHANGED nCalls

TimerTick == \E t \in 1 .. MaxCalls : Tick(t)

Next == DoInflictWoundDamage \/ DoCreateWound \/ TimerTick

Spec == Init /\ [][Next]_vars

\* a running repeating timer is fired again and again by the scheduler
FairSpec == Spec /\ \A t \in 1 .. MaxCalls : WF_vars(Tick(t))

TypeOK ==
  /\ DOMAIN entity = HealthKeys
  /\ m_BleedTimer \in 0 .. Len(timers)
  /\ Len(timers) <= nCalls
  /\ Len(bleeds) = Len(timers)
  /\ \A t \in 1 .. Len(bleeds) : bleeds[t].ticked \in BOOLEAN
  /\ nCalls \in 0 .. MaxCalls
\* ------------------------------------------------------------- properties
Running == { t \in 1 .. Len(timers) : timers[t].running }

GlobalHealth == <<"", "Health">>
GlobalBlood == <<"", "Blood">>

\* the last invocation ran InflictWoundDamage (directly or from CreateWound)
InflictCall == last.op \in {"InflictWoundDamage", "CreateWound"}

LastCanBleed == ConfigGetFloat(CanBleedPath(EntityType, last.zone_name)) > 0
LastThreshold == ConfigGetFloat(BleedThresholdPath(last.ammo))

\* the last CreateWound allocated a timer, ran it and stored it in m_BleedTimer
TimerInstalled ==
  /\ Len(timers) = Len(pre.timers) + 1
  /\ m_BleedTimer = Len(timers)
  /\ timers[m_BleedTimer].running

BleedStateUntouched ==
  /\ timers = pre.timers
  /\ m_BleedTimer = pre.m_BleedTimer

\* C1: at most one bleed timer of the component is running at any time; a
\* timer that an earlier CreateWound started no longer runs once a later
\* CreateWound has installed its own.
C1_AtMostOneTimerRunning == Cardinality(Running) <= 1

\* C2: a tick of a bleed instance that finds the creature not alive leaves
\* that same instance stopped, so that it fires no further tick.
C2_DeadTickStopsItsInstance ==
  (last.op = "Bleed" /\ ~IsAlive(pre)) => ~timers[last.timer].running

\* C3: CreateWound installs a bleed timer exactly when the zone's canBleed
\* value is > 0 and the draw is <= the ammo's bleedThreshold; otherwise no
\* timer is created and timers and m_BleedTimer are as they were.
C3_InstallIffEligible ==
  last.op = "CreateWound" =>
    /\ TimerInstalled <=> (LastCanBleed /\ last.chance <= LastThreshold)
    /\ ~TimerInstalled => BleedStateUntouched

\* a roll that succeeds on the boundary draw = bleedThreshold > 0
C3_Witness ==
  /\ last.op = "CreateWound"
  /\ LastCanBleed
  /\ LastThreshold > 0
  /\ last.chance = LastThreshold
  /\ TimerInstalled

\* C4: a CreateWound whose ammo has bleedThreshold 0, or whose zone cannot
\* bleed, starts no bleed whatever the draw.
C4_NoBleedAtZeroThreshold ==
  (last.op = "CreateWound" /\ (LastThreshold = 0 \/ ~LastCanBleed)) =>
    BleedStateUntouched

\* C5 (as stated): an InflictWoundDamage call with an empty zone_name changes
\* no health value, whatever the ammo.
C5_EmptyZoneChangesNothing ==
  (InflictCall /\ last.zone_name = "") => entity = pre.entity

\* C5 (amended): with an empty zone_name and an ammo other than the lethal
\* weapon no health value changes; with the lethal weapon the only change is
\* global Health set to 0.
C5_EmptyZoneOnlyLethalKill ==
  (InflictCall /\ last.zone_name = "") =>
    IF last.ammo = LethalAmmo
    THEN entity = [pre.entity EXCEPT ![GlobalHealth] = 0]
    ELSE entity = pre.entity

\* the lethal weapon with an empty zone on a creature that was alive
C5_Witness ==
  /\ InflictCall
  /\ last.zone_name = ""
  /\ last.ammo = LethalAmmo
  /\ pre.entity[GlobalHealth] > 0
  /\ entity[GlobalHealth] = 0

\* the health-mutating calls of the last invocation, in the order made
IsHealthMutation(c) == c[1] \in {"SetHealth", "DecreaseHealth"}
HealthMutations == SelectSeq(calls, IsHealthMutation)

\* the magnitude the last invocation's report gives for its zone's "Health"
LastReported ==
  IF last.zone_name \in Zones
  THEN last.damage_result[<<last.zone_name, "Health">>]
  ELSE 0

KillCall == <<"SetHealth", "", "", 0>>
TwoDecreases ==
  << <<"DecreaseHealth", "", "Health", LastReported>>,
     <<"DecreaseHealth", last.zone_name, "Health", LastReported>> >>

\* C6 (as stated): the health mutations of an InflictWoundDamage call are
\* either the single set-to-zero call (lethal weapon) or the two
\* health-decrease calls (any other ammo).
C6_OneOfTwoShapes ==
  InflictCall =>
    IF last.ammo = LethalAmmo
    THEN HealthMutations = <<KillCall>>
    ELSE HealthMutations = TwoDecreases

\* C6 (amended): the health mutations of an InflictWoundDamage call are, in
\* order, the set-to-zero call exactly when the ammo is the lethal weapon,
\* followed by the two health-decrease calls (global Health, zone Health)
\* exactly when zone_name is not empty.
C6_KillThenDecreases ==
  InflictCall =>
    HealthMutations =
      (IF last.ammo = LethalAmmo THEN <<KillCall>> ELSE <<>>) \o
      (IF last.zone_name # "" THEN TwoDecreases ELSE <<>>)

\* the lethal weapon on a named zone: the kill and both decreases are made
C6_Witness ==
  /\ InflictCall
  /\ last.ammo = LethalAmmo
  /\ last.zone_name # ""
  /\ Len(HealthMutations) = 3

\* C7: with the lethal weapon the first call InflictWoundDamage makes is the
\* set-to-zero of global health, before any read of the report, for every
\* zone name and report, and the creature is not alive afterwards.
C7_LethalKillsFirst ==
  (InflictCall /\ last.ammo = LethalAmmo) =>
    /\ Len(calls) >= 1
    /\ calls[1] = KillCall
    /\ entity[GlobalHealth] <= 0
    /\ ~IsAlive(Snapshot)

\* the lethal weapon on a named zone with a positive reported magnitude, on a
\* creature that was alive
C7_Witness ==
  /\ InflictCall
  /\ last.ammo = LethalAmmo
  /\ last.zone_name # ""
  /\ LastReported > 0
  /\ IsAlive(pre)
  /\ Len(calls) >= 3

\* C8 (as stated): with a non-empty zone_name InflictWoundDamage leaves global
\* Health at its level on entry minus the magnitude the report gives for
\* (zone_name, "Health"), and the zone's Health at its level on entry minus
\* that same magnitude.
C8_DecreaseFromEntryLevel ==
  (InflictCall /\ last.zone_name # "") =>
    LET zone == <<last.zone_name, "Health">>
    IN /\ entity[GlobalHealth] = pre.entity[GlobalHealth] - LastReported
       /\ entity[zone] = pre.entity[zone] - LastReported

\* C8 (amended): with a non-empty zone_name InflictWoundDamage decreases the
\* zone's Health by exactly the magnitude the report gives for
\* (zone_name, "Health"); global Health ends at its level on entry minus that
\* magnitude when the ammo is not the lethal weapon, and at 0 minus that
\* magnitude when it is, the kill having set it to 0 before the decrease.
C8_DecreaseByReported ==
  (InflictCall /\ last.zone_name # "") =>
    LET base == IF last.ammo = LethalAmmo THEN 0 ELSE pre.entity[GlobalHealth]
        zone == <<last.zone_name, "Health">>
    IN /\ entity[GlobalHealth] = base - LastReported
       /\ entity[zone] = pre.entity[zone] - LastReported
       /\ SelectSeq(calls, LAMBDA c : c[1] = "DecreaseHealth") = TwoDecreases
       /\ \A k \in HealthKeys \ {GlobalHealth, zone} : entity[k] = pre.entity[k]

\* the lethal weapon on a named zone of a creature with positive global Health
\* and a positive reported magnitude: global Health ends below zero, away from
\* its entry level minus the magnitude
C8_Witness ==
  /\ InflictCall
  /\ last.zone_name # ""
  /\ last.ammo = LethalAmmo
  /\ LastReported > 0
  /\ pre.entity[GlobalHealth] > 0
  /\ entity[GlobalHealth] = 0 - LastReported
  /\ entity[GlobalHealth] # pre.entity[GlobalHealth] - LastReported

\* blood drained by one tick of the last invocation's wound_intensity
LastBleedingIntensity == (BASE_BLEED_RATE * last.wound_intensity) \div Scale

\* C9: a tick on an alive creature whose global Blood before the decrease is
\* below PASS_OUT_AMOUT sets global health to 0 on that tick and still
\* applies that tick's blood decrease.
C9_PassOutKillsAndDrains ==
  (last.op = "Bleed" /\ IsAlive(pre) /\ pre.entity[GlobalBlood] < PASS_OUT_AMOUT) =>
    /\ entity[GlobalHealth] = 0
    /\ entity[GlobalBlood] = pre.entity[GlobalBlood] - LastBleedingIntensity

\* such a tick with a positive drain
C9_Witness ==
  /\ last.op = "Bleed"
  /\ IsAlive(pre)
  /\ pre.entity[GlobalBlood] < PASS_OUT_AMOUT
  /\ LastBleedingIntensity > 0
  /\ entity[GlobalHealth] = 0

\* C10: a tick on an alive creature whose global Blood before the decrease is
\* >= PASS_OUT_AMOUT leaves global health as it was, also when the level
\* after the decrease is below PASS_OUT_AMOUT, and the timer keeps running.
C10_PreTickLevelDecides ==
  (last.op = "Bleed" /\ IsAlive(pre) /\ pre.entity[GlobalBlood] >= PASS_OUT_AMOUT) =>
    /\ entity[GlobalHealth] = pre.entity[GlobalHealth]
    /\ IsAlive(Snapshot)
    /\ timers = pre.timers
    /\ timers[last.timer].running
    /\ SelectSeq(calls, LAMBDA c : c[1] = "SetHealth") = <<>>

\* such a tick that takes the level from >= 500 to below 500
C10_Witness ==
  /\ last.op = "Bleed"
  /\ IsAlive(pre)
  /\ pre.entity[GlobalBlood] >= PASS_OUT_AMOUT
  /\ entity[GlobalBlood] < PASS_OUT_AMOUT
  /\ IsAlive(Snapshot)

\* C11: a tick that finds the creature not alive stops the recurring timer
\* that fired it and changes no health or blood value.
C11_DeadTickStopsAndLeavesHealth ==
  (last.op = "Bleed" /\ ~IsAlive(pre)) =>
    /\ entity = pre.entity
    /\ ~timers[last.timer].running

\* C12: a tick on an alive creature decreases global Blood by exactly
\* BASE_BLEED_RATE times the wound_intensity passed to it, whatever the level.
C12_DrainIsRateTimesIntensity ==
  (last.op = "Bleed" /\ IsAlive(pre)) =>
    /\ entity[GlobalBlood] = pre.entity[GlobalBlood] - LastBleedingIntensity
    /\ SelectSeq(calls, LAMBDA c : c[1] = "DecreaseHealth") =
         << <<"DecreaseHealth", "", "Blood", LastBleedingIntensity>> >>

\* a tick that drains more blood than the creature has left
C12_Witness ==
  /\ last.op = "Bleed"
  /\ IsAlive(pre)
  /\ LastBleedingIntensity > pre.entity[GlobalBlood]
  /\ entity[GlobalBlood] < 0

\* C13: the wound_intensity of a bleed is 2 times the bleedThreshold read by
\* the CreateWound that started it, without clamping; no later invocation
\* changes it, and every tick of the bleed is passed that value.
C13_IntensityFixedAtStart ==
  /\ (last.op = "CreateWound" /\ TimerInstalled) =>
       timers[m_BleedTimer].wound_intensity = 2 * LastThreshold
  /\ \A t \in 1 .. Len(pre.timers) :
       timers[t].wound_intensity = pre.timers[t].wound_intensity
  /\ last.op = "Bleed" =>
       last.wound_intensity = pre.timers[last.timer].wound_intensity

\* a tick of a bleed of intensity 2.0 after a later CreateWound has started
\* a bleed of another intensity
C13_Witness ==
  /\ last.op = "Bleed"
  /\ Len(timers) = 2
  /\ last.timer = 1
  /\ last.wound_intensity = 2 * Scale
  /\ timers[2].wound_intensity # timers[1].wound_intensity
  /\ IsAlive(pre)

\* the end-to-end scenario: one CreateWound, which did no damage, started the
\* only bleed, of intensity 1.0, on a creature with Health 100 and Blood 600
Scenario600 ==
  /\ nCalls = 1
  /\ Len(timers) = 1
  /\ timers[1].wound_intensity = Scale
  /\ bleeds[1].start[GlobalHealth] = 100
  /\ bleeds[1].start[GlobalBlood] = 600
  /\ \A z \in Zones : bleeds[1].start[<<z, "Health">>] = InitHealth

\* the levels of the scenario after its first and after its second tick
AfterTick1 == [bleeds[1].start EXCEPT ![GlobalBlood] = 350]
AfterTick2 == [bleeds[1].start EXCEPT ![GlobalBlood] = 100, ![GlobalHealth] = 0]

\* C14: in that scenario the creature is alive with Blood 350 after tick 1,
\* has health 0 and Blood 100 after tick 2, and tick 3 stops the timer and
\* changes nothing; the kill happens on tick 2, not earlier and not later.
\* The ticks are told apart by the levels they start from, and no other
\* levels occur in the scenario.
C14_EndToEnd600 ==
  Scenario600 =>
    /\ ~bleeds[1].ticked => (entity = bleeds[1].start /\ timers[1].running)
    /\ (last.op = "Bleed" /\ pre.entity = bleeds[1].start) =>
         /\ entity = AfterTick1
         /\ IsAlive(Snapshot)
         /\ timers[1].running
    /\ (last.op = "Bleed" /\ pre.entity = AfterTick1) =>
         /\ entity = AfterTick2
         /\ timers[1].running
    /\ (last.op = "Bleed" /\ pre.entity = AfterTick2) =>
         /\ entity = AfterTick2
         /\ ~timers[1].running
         /\ calls = << <<"Stop", 1>> >>
    /\ last.op = "Bleed" =>
         pre.entity \in {bleeds[1].start, AfterTick1, AfterTick2}

\* the scenario after its third tick
C14_Witness ==
  /\ Scenario600
  /\ last.op = "Bleed"
  /\ pre.entity = AfterTick2
  /\ pre.timers[1].running
  /\ ~timers[1].running

IsDamageCall(c) == c[1] \in {"SetHealth", "DecreaseHealth", "GetDamage"}
IsRollCall(c) == c[1] \in {"ConfigGetFloat", "RandomFloat01", "Run"}

\* the entity levels InflictWoundDamage leaves, from the levels on entry and
\* the last invocation's report, zone and ammo alone
DamagedEntity ==
  LET e1 == IF last.ammo = LethalAmmo
            THEN [pre.entity EXCEPT ![GlobalHealth] = 0]
            ELSE pre.entity
  IN IF last.zone_name = ""
     THEN e1
     ELSE [e1 EXCEPT ![GlobalHealth] = @ - LastReported,
                     ![<<last.zone_name, "Health">>] = @ - LastReported]

\* C15: in a CreateWound call every call of the damage application comes
\* before the configuration reads, the draw and the timer start, and the
\* entity levels it leaves do not depend on the outcome of the roll.
C15_DamageBeforeRoll ==
  last.op = "CreateWound" =>
    /\ \A i, j \in 1 .. Len(calls) :
         (IsDamageCall(calls[i]) /\ IsRollCall(calls[j])) => i < j
    /\ Len(SelectSeq(calls, LAMBDA c : c[1] = "RandomFloat01")) = 1
    /\ entity = DamagedEntity

\* a CreateWound that does damage on a named zone and whose roll succeeds
C15_Witness ==
  /\ last.op = "CreateWound"
  /\ last.zone_name # ""
  /\ LastReported > 0
  /\ TimerInstalled
  /\ entity # pre.entity

\* C16: every bleed that CreateWound starts ends: its timer is eventually
\* stopped and the creature eventually not alive, when running timers keep
\* being fired and nothing restores blood or health.
C16_EveryBleedEnds ==
  \A t \in 1 .. MaxCalls :
    [](t <= Len(timers) =>
         <>(t <= Len(timers) /\ ~timers[t].running /\ ~IsAlive(Snapshot)))

\* timers that were running when the last invocation began and are not now
StoppedByLast ==
  { t \in 1 .. Len(pre.timers) : pre.timers[t].running /\ ~timers[t].running }

\* C17: a running timer stops only in a Bleed tick that finds the creature
\* not alive; no InflictWoundDamage, CreateWound or tick on an alive creature
\* stops a running timer.
C17_OnlyDeadTickStops ==
  /\ StoppedByLast # {} => (last.op = "Bleed" /\ ~IsAlive(pre))
  /\ IsAlive(pre) => StoppedByLast = {}
  /\ last.op \in {"InflictWoundDamage", "CreateWound"} => StoppedByLast = {}

\* a CreateWound on an alive creature starts a second bleed and the first
\* keeps running
C17_Witness ==
  /\ last.op = "CreateWound"
  /\ IsAlive(pre)
  /\ TimerInstalled
  /\ Len(timers) = 2
  /\ timers[1].running
  /\ bleeds[1].ticked

\* C18: the bleeding logic of CreateWound does not execute: a CreateWound
\* call reads no configuration, draws no random number and installs no timer.
C18_BleedLogicDisabled ==
  last.op = "CreateWound" =>
    /\ BleedStateUntouched
    /\ SelectSeq(calls, IsRollCall) = <<>>

\* the creature was not alive when the bleed of timer t started
StartedDead(t) == ~IsAlive([entity |-> bleeds[t].start])

\* C19: a CreateWound whose damage leaves the creature not alive and whose
\* roll succeeds still installs a timer; no tick of that bleed changes Blood,
\* and once it has ticked it is stopped.
C19_DeadStartBleedStopsAtFirstTick ==
  /\ (last.op = "CreateWound" /\ ~IsAlive(Snapshot)
        /\ LastCanBleed /\ last.chance <= LastThreshold) => TimerInstalled
  /\ \A t \in 1 .. Len(timers) :
       StartedDead(t) =>
         /\ (last.op = "Bleed" /\ last.timer = t) =>
              entity[GlobalBlood] = pre.entity[GlobalBlood]
         /\ bleeds[t].ticked => ~timers[t].running

\* the same for a bleed that is the only one the component ever started
C19_SingleBleedSanity ==
  Len(timers) = 1 =>
    (StartedDead(1) /\ bleeds[1].ticked => ~timers[1].running)

\* C20: InflictWoundDamage and CreateWound change no Blood level; a Bleed
\* tick changes no zone-scoped level and changes global Health only by
\* setting it to 0 when the creature was alive with Blood below PASS_OUT_AMOUT.
C20_DisjointResources ==
  /\ InflictCall =>
       \A k \in HealthKeys : k[2] = "Blood" => entity[k] = pre.entity[k]
  /\ last.op = "Bleed" =>
       /\ \A k \in HealthKeys : k[1] # "" => entity[k] = pre.entity[k]
       /\ \/ entity[GlobalHealth] = pre.entity[GlobalHealth]
          \/ /\ entity[GlobalHealth] = 0
             /\ IsAlive(pre)
             /\ pre.entity[GlobalBlood] < PASS_OUT_AMOUT

\* a pass-out kill by a tick on a creature that earlier damage had hurt
C20_Witness ==
  /\ last.op = "Bleed"
  /\ pre.entity[GlobalHealth] \in 1 .. (InitHealth - 1)
  /\ entity[GlobalHealth] = 0
  /\ \E z \in Zones : entity[<<z, "Health">>] < InitHealth
  /\ entity[GlobalBlood] < pre.entity[GlobalBlood]
====
